---- MODULE Spec2Model ----
(***************************************************************************)
(* Model of src/app/api/chat/route.ts: the POST handler of the multi-model *)
(* debate (Round 1 independent answers, Round 2 critiques, Round 3         *)
(* arbiter), its provider gateway callLLM and its text extractors.         *)
(*                                                                         *)
(* Text is a sequence of tokens; every token is a TLA+ string and the      *)
(* JavaScript string a text stands for is the concatenation of its tokens. *)
(* Markers are tokens ("FINAL_ANSWER:"), except "UPDATED_FINAL_ANSWER:",   *)
(* which is the two tokens "UPDATED_" "FINAL_ANSWER:" so that, as in the   *)
(* source, a search for "FINAL_ANSWER:" also finds it inside the longer    *)
(* marker.  An ASCII character is written as itself; a character outside   *)
(* ASCII is written as the token that spells its code point, a backslash,  *)
(* u and four hexadecimal digits: U+00A0 is the token "\\u00a0".  A        *)
(* string literal holding the character itself is not read the same under  *)
(* every platform encoding (under POSIX, U+00A0 and U+00E9 are one string, *)
(* under UTF-8, U+2028 is no string at all); its spelling is.              *)
(*                                                                         *)
(* The string primitives that read a text many times (IndexOf, TrimStart,  *)
(* TrimEnd, Join, Concat) are functions, and the settle actions bind the   *)
(* value callLLM returns with \E over a singleton: TLC then evaluates each *)
(* argument once, also when it evaluates ENABLED for the fairness of       *)
(* FairSpec.                                                               *)
(*                                                                         *)
(* Spec and FairSpec are POST.  UtilSpec is one call of a utility alone    *)
(* (getMaxTokensForProvider, extractBetween, extractAfter) or the parsing  *)
(* one round does with the text callLLM returned, on arguments drawn from  *)
(* bounded sets: fn names the function, args holds its arguments and out   *)
(* what it returned.                                                       *)
(***************************************************************************)
EXTENDS Integers, Sequences, FiniteSets, TLC

VARIABLES
    body,       \* the request body POST was called with
    pc,         \* position of POST: "start","parsed","r1","r2","r3","done"
    calls,      \* provider calls issued so far, in the order of their issue
    results1,   \* value array of Round 1's Promise.all
    results2,   \* value array of Round 2's Promise.all
    round1,     \* POST's local round1 (<<>> until runRound1 has returned)
    round2,     \* POST's local round2 (<<>> until runRound2 has returned)
    responses,  \* the Response objects POST has returned
    fn,         \* the function under call: "POST", or one utility called alone
    args,       \* the arguments of a utility called alone (<<>> under POST)
    out         \* what the utility called alone returned, once it has

vars == <<body, pc, calls, results1, results2, round1, round2, responses,
          fn, args, out>>

----------------------------------------------------------------------------
(* Bounds of the model *)

\* how many of the texts of each round's pool a provider may return
NumTexts == 3

----------------------------------------------------------------------------
(* JavaScript string primitives on token sequences *)

Min(S) == CHOOSE x \in S : \A y \in S : x <= y

\* the white space and line terminators String.prototype.trim strips
\* (ECMAScript WhiteSpace and LineTerminator): tab, line feed, vertical tab,
\* form feed, carriage return, space, and outside ASCII the no-break space,
\* the byte order mark, the line and paragraph separators and the other
\* space separators of Unicode, each written by its code point
IsWhitespace(tok) ==
    tok \in {"\t", "\n", "", "\f", "\r", " ",
             "\\u00a0", "\\u1680",
             "\\u2000", "\\u2001", "\\u2002", "\\u2003", "\\u2004", "\\u2005",
             "\\u2006", "\\u2007", "\\u2008", "\\u2009", "\\u200a",
             "\\u2028", "\\u2029", "\\u202f", "\\u205f", "\\u3000", "\\ufeff"}

Text == Seq(STRING)

\* String.prototype.indexOf(marker, from): 0-based index or -1
IndexOf[text \in Text, marker \in Text, from \in Int] ==
    LET cands == { i \in from .. (Len(text) - Len(marker)) :
                     SubSeq(text, i + 1, i + Len(marker)) = marker }
    IN  IF cands = {} THEN -1 ELSE Min(cands)

\* String.prototype.substring(a, b): [a, b), 0-based
Substring(text, a, b) == SubSeq(text, a + 1, b)

TrimStart[text \in Text] ==
    IF text # <<>> /\ IsWhitespace(Head(text)) THEN TrimStart[Tail(text)] ELSE text

TrimEnd[text \in Text] ==
    IF text # <<>> /\ IsWhitespace(text[Len(text)])
    THEN TrimEnd[SubSeq(text, 1, Len(text) - 1)]
    ELSE text

\* String.prototype.trim()
Trim(text) == TrimEnd[TrimStart[text]]

\* a || b on strings: the empty string is falsy
OrElse(a, b) == IF a # <<>> THEN a ELSE b

----------------------------------------------------------------------------
(* Configuration *)

MODELS == <<
    [id |-> "claude", provider |-> "anthropic", modelName |-> "claude-3-haiku-20240307"],
    [id |-> "gpt",    provider |-> "openai",    modelName |-> "gpt-3.5-turbo"],
    [id |-> "gemini", provider |-> "google",    modelName |-> "gemini-2.5-flash"] >>

ARBITER_MODEL == MODELS[1]

\* what MODELS.find yields when no entry matches: undefined, written as a
\* record so that it compares with the entries of MODELS
NoConfig == [id |-> "undefined", provider |-> "undefined", modelName |-> "undefined"]

R1_SYSTEM_PROMPT == <<"R1_SYSTEM_PROMPT">>
R2_SYSTEM_PROMPT == <<"R2_SYSTEM_PROMPT">>
R3_SYSTEM_PROMPT == <<"R3_SYSTEM_PROMPT">>

NoAnswerProvided == <<"No answer provided">>
UnableToDetermine == <<"Unable to determine final answer">>

----------------------------------------------------------------------------
(* Text parsing utilities *)

\* the mutated extractBetween: the end marker is searched from the start of
\* the text, not from the end of the start marker
extractBetweenAnyEnd(text, startMarker, endMarker) ==
    LET startIdx == IndexOf[text, startMarker, 0] IN
    IF startIdx = -1 THEN <<>>
    ELSE LET contentStart == startIdx + Len(startMarker)
             endIdx == IndexOf[text, endMarker, 0]
         IN  IF endIdx = -1
             THEN Trim(Substring(text, contentStart, Len(text)))
             ELSE Trim(Substring(text, contentStart, endIdx))

\* the mutated extractBetween: a text without the start marker is returned
\* as it is
extractBetweenOrText(text, startMarker, endMarker) ==
    LET startIdx == IndexOf[text, startMarker, 0] IN
    IF startIdx = -1 THEN text
    ELSE LET contentStart == startIdx + Len(startMarker)
             endIdx == IndexOf[text, endMarker, contentStart]
         IN  IF endIdx = -1
             THEN Trim(Substring(text, contentStart, Len(text)))
             ELSE Trim(Substring(text, contentStart, endIdx))

extractBetween(text, startMarker, endMarker) ==
    LET startIdx == IndexOf[text, startMarker, 0] IN
    IF startIdx = -1 THEN <<>>
    ELSE LET contentStart == startIdx + Len(startMarker)
             endIdx == IndexOf[text, endMarker, contentStart]
         IN  IF endIdx = -1
             THEN Trim(Substring(text, contentStart, Len(text)))
             ELSE Trim(Substring(text, contentStart, endIdx))

nextMarkers == {
    <<"\n", "\n", "RATIONALE:">>, <<"\n", "\n", "REASONING:">>,
    <<"\n", "\n", "FINAL_ANSWER:">>, <<"\n", "\n", "CRITIQUE:">>,
    <<"\n", "\n", "UPDATED_", "FINAL_ANSWER:">>,
    <<"\n", "\n", "JUSTIFICATION:">>, <<"\n", "\n", "ANALYSIS:">>,
    <<"\n", "\n", "UNDERSTANDING:">>, <<"\n", "\n", "APPROACH:">>,
    <<"\n", "\n", "SOLUTION:">>, <<"\n", "\n", "VERIFICATION:">>,
    <<"\n", "\n", "CONFIDENCE:">>, <<"\n", "\n", "SOLUTIONS_REVIEWED:">>,
    <<"\n", "\n", "BREAK_ATTEMPTS:">>, <<"\n", "\n", "BLIND_SPOT_CHECK:">> }

\* the mutated extractAfter: everything after the marker, no next-marker cut
extractAfterToEnd(text, marker) ==
    LET idx == IndexOf[text, marker, 0] IN
    IF idx = -1 THEN <<>>
    ELSE Trim(Substring(text, idx + Len(marker), Len(text)))

\* the mutated extractAfter: a text without the marker is returned as it is
extractAfterOrText(text, marker) ==
    LET idx == IndexOf[text, marker, 0] IN
    IF idx = -1 THEN text
    ELSE LET contentStart == idx + Len(marker)
             restOfText == Trim(Substring(text, contentStart, Len(text)))
             found == { IndexOf[restOfText, m, 0] : m \in nextMarkers } \ {-1}
             endIdx == Min(found \cup {Len(restOfText)})
         IN  Trim(Substring(restOfText, 0, endIdx))

\* the mutated extractAfter: the content ends at the first line break
extractAfterFirstLine(text, marker) ==
    LET idx == IndexOf[text, marker, 0] IN
    IF idx = -1 THEN <<>>
    ELSE LET contentStart == idx + Len(marker)
             restOfText == Trim(Substring(text, contentStart, Len(text)))
             found == { IndexOf[restOfText, <<"\n">>, 0] } \ {-1}
             endIdx == Min(found \cup {Len(restOfText)})
         IN  Trim(Substring(restOfText, 0, endIdx))

extractAfter(text, marker) ==
    LET idx == IndexOf[text, marker, 0] IN
    IF idx = -1 THEN <<>>
    ELSE LET contentStart == idx + Len(marker)
             restOfText == Trim(Substring(text, contentStart, Len(text)))
             found == { IndexOf[restOfText, m, 0] : m \in nextMarkers } \ {-1}
             endIdx == Min(found \cup {Len(restOfText)})
         IN  Trim(Substring(restOfText, 0, endIdx))

----------------------------------------------------------------------------
(* Provider gateway: callLLM *)

\* the mutated cap: the requested value is sent as it is
uncappedMaxTokens(provider, requested) == requested

\* min(requested, limits[provider] || 4096)
getMaxTokensForProvider(provider, requested) ==
    LET limit == CASE provider = "openai" -> 4096
                   [] provider = "anthropic" -> 4096
                   [] provider = "google" -> 8192
                   [] OTHER -> 4096
    IN  IF requested < limit THEN requested ELSE limit

FallbackEmpty == <<
    "REASONING:", " ",
    "Unable to generate response due to safety filters or API limitations.",
    "\n", "\n", "FINAL_ANSWER:", " ", "No answer provided",
    "\n", "\n", "CRITIQUE:", " ", "Unable to provide critique due to API error.",
    "\n", "\n", "UPDATED_", "FINAL_ANSWER:", " ", "No answer provided" >>

FallbackFailed == <<
    "REASONING:", " ", "API call failed.",
    "\n", "\n", "FINAL_ANSWER:", " ", "No answer provided",
    "\n", "\n", "CRITIQUE:", " ", "Unable to provide critique due to API error.",
    "\n", "\n", "UPDATED_", "FINAL_ANSWER:", " ", "No answer provided" >>

\* What the provider's SDK does with one call.  kind is
\*   "text"        the call returns the text `text` (possibly empty),
\*   "nontext"     anthropic: content[0] is not a text block,
\*   "nocontent"   anthropic: content is the empty array,
\*   "nullcontent" openai: no choice, or a message whose content is null,
\*   "textThrows"  google: generateContent returns, response.text() throws,
\*   "error"       the call itself rejects.
Outcome(kind, text) == [kind |-> kind, text |-> text]

Returned(text) == [threw |-> FALSE, text |-> text, message |-> ""]
Thrown(message) == [threw |-> TRUE, text |-> <<>>, message |-> message]

\* the switch inside callLLM's try block
callProvider(config, o) ==
    CASE config.provider = "anthropic" ->
           CASE o.kind = "error" -> Thrown("provider error")
             [] o.kind = "nocontent" -> Thrown("Cannot read properties of undefined (reading 'type')")
             [] o.kind = "text" -> Returned(o.text)
             [] OTHER -> Returned(<<>>)
      [] config.provider = "openai" ->
           CASE o.kind = "error" -> Thrown("provider error")
             [] o.kind = "text" -> Returned(OrElse(o.text, <<>>))
             [] OTHER -> Returned(<<>>)
      [] config.provider = "google" ->
           CASE o.kind = "error" -> Thrown("provider error")
             [] o.kind = "textThrows" -> Returned(FallbackEmpty)
             [] o.kind = "text" /\ Trim(o.text) # <<>> -> Returned(o.text)
             [] OTHER -> Returned(FallbackEmpty)
      [] OTHER -> Thrown("Unknown provider")

\* the mutated policy: every provider's failure is absorbed
softFailsAll(provider) == TRUE

\* the mutated policy: no provider's failure is absorbed
softFailsNone(provider) == FALSE

\* the catch block's test: only google's failure is absorbed
softFails(provider) == provider = "google"

\* what reading a property of an undefined config throws; the catch block's
\* console.error reads config.id and its TypeError replaces the try block's
UndefinedConfigMessage == "Cannot read properties of undefined (reading 'id')"

\* an undefined config throws before the switch: no provider call is issued
callLLM(config, o) ==
    IF config = NoConfig THEN Thrown(UndefinedConfigMessage)
    ELSE LET r == callProvider(config, o) IN
         IF r.threw /\ softFails(config.provider) THEN Returned(FallbackFailed)
         ELSE r

----------------------------------------------------------------------------
(* Rounds *)

N == Len(MODELS)

\* a slot of a Promise.all value array that no promise has filled yet
Unfilled == [modelId |-> "undefined"]

\* the mutated barrier: the first result resolves the round
anyFilled(results) == \E i \in DOMAIN results : results[i] # Unfilled

\* Promise.all resolves when every promise has resolved
allFilled(results) == \A i \in DOMAIN results : results[i] # Unfilled

\* the mutated store: results are kept in the order of completion
storeNext(results, slot, value) ==
    LET free == { i \in DOMAIN results : results[i] = Unfilled }
    IN  IF free = {} THEN results ELSE [results EXCEPT ![Min(free)] = value]

\* Promise.all keeps each value at the index of its promise
storeResult(results, slot, value) == [results EXCEPT ![slot] = value]

\* the mutated Round 1 parsing: the extracted fields are kept as they are
Round1AnswerAsExtracted(modelId, responseText) ==
    [ modelId |-> modelId,
      rawAnswer |-> responseText,
      reasoning |-> extractBetween(responseText, <<"REASONING:">>, <<"FINAL_ANSWER:">>),
      finalAnswer |-> extractAfter(responseText, <<"FINAL_ANSWER:">>) ]

Round1Answer(modelId, responseText) ==
    LET reasoning == extractBetween(responseText, <<"REASONING:">>, <<"FINAL_ANSWER:">>)
        finalAnswer == extractAfter(responseText, <<"FINAL_ANSWER:">>)
    IN  [ modelId |-> modelId,
          rawAnswer |-> responseText,
          reasoning |-> OrElse(reasoning, responseText),
          finalAnswer |-> OrElse(finalAnswer, NoAnswerProvided) ]

\* the mutated Round 2 parsing: a missing revised answer becomes the sentinel
Round2CritiqueOrSentinel(self, responseText) ==
    LET critique == extractBetween(responseText, <<"CRITIQUE:">>,
                                   <<"UPDATED_", "FINAL_ANSWER:">>)
        revisedAnswer == extractAfter(responseText, <<"UPDATED_", "FINAL_ANSWER:">>)
    IN  [ modelId |-> self.modelId,
          rawCritique |-> responseText,
          critique |-> OrElse(critique, responseText),
          revisedAnswer |-> OrElse(revisedAnswer, NoAnswerProvided) ]

Round2Critique(self, responseText) ==
    LET critique == extractBetween(responseText, <<"CRITIQUE:">>,
                                   <<"UPDATED_", "FINAL_ANSWER:">>)
        revisedAnswer == extractAfter(responseText, <<"UPDATED_", "FINAL_ANSWER:">>)
    IN  [ modelId |-> self.modelId,
          rawCritique |-> responseText,
          critique |-> OrElse(critique, responseText),
          revisedAnswer |-> OrElse(revisedAnswer, self.finalAnswer) ]

\* the mutated Round 3 parsing: RATIONALE: is tried before JUSTIFICATION:
Round3ResultRationaleFirst(responseText) ==
    LET finalAnswer == extractAfter(responseText, <<"FINAL_ANSWER:">>)
        oldFormat == extractAfter(responseText, <<"RATIONALE:">>)
        rationale == IF oldFormat = <<>>
                     THEN extractAfter(responseText, <<"JUSTIFICATION:">>)
                     ELSE oldFormat
    IN  [ finalAnswer |-> OrElse(finalAnswer, UnableToDetermine),
          rationale |-> OrElse(rationale, responseText) ]

Round3Result(responseText) ==
    LET finalAnswer == extractAfter(responseText, <<"FINAL_ANSWER:">>)
        justification == extractAfter(responseText, <<"JUSTIFICATION:">>)
        rationale == IF justification = <<>>
                     THEN extractAfter(responseText, <<"RATIONALE:">>)
                     ELSE justification
    IN  [ finalAnswer |-> OrElse(finalAnswer, UnableToDetermine),
          rationale |-> OrElse(rationale, responseText) ]

\* fields of an array slot read as text (undefined reads as "undefined")
Field(r, f) == IF f \in DOMAIN r THEN r[f] ELSE <<"undefined">>

\* Array.prototype.join(sep)
Join[texts \in Seq(Text), sep \in Text] ==
    IF texts = <<>> THEN <<>>
    ELSE IF Len(texts) = 1 THEN texts[1]
    ELSE texts[1] \o sep \o Join[Tail(texts), sep]

round1UserPrompt(question) == <<"QUESTION:", "\n">> \o question

othersBlock(o) ==
    <<"ANSWER_FROM_", o.modelId, ":", "\n", "REASONING:", "\n">> \o Field(o, "reasoning")
    \o <<"\n", "\n", "FINAL_ANSWER:", "\n">> \o Field(o, "finalAnswer")

\* the mutated Round 2 prompt: it also carries a critique (a Round 2 output)
buildRound2UserPromptWithCritique(question, self, others) ==
    <<"QUESTION:", "\n">> \o question
    \o <<"\n", "\n", "CRITIQUE:", " ", "checked", "\n", "\n",
         "UPDATED_", "FINAL_ANSWER:", " ">> \o Field(self, "finalAnswer")

buildRound2UserPrompt(question, self, others) ==
    LET othersText == Join[[i \in DOMAIN others |-> othersBlock(others[i])],
                           <<"\n", "\n">>]
    IN  <<"QUESTION:", "\n">> \o question
        \o <<"\n", "\n", "YOUR_PREVIOUS_ANSWER (", self.modelId, "):", "\n",
             "REASONING:", "\n">> \o Field(self, "reasoning")
        \o <<"\n", "\n", "FINAL_ANSWER:", "\n">> \o Field(self, "finalAnswer")
        \o <<"\n", "\n">> \o othersText

\* the mutated filter: the agent's own answer is not removed
othersOfAll(r1, self) == r1

\* round1.filter((r) => r.modelId !== self.modelId)
othersOf(r1, self) == SelectSeq(r1, LAMBDA r : r.modelId # self.modelId)

\* the mutated lookup: every agent is bound to the first configured model
findFirstModel(id) == MODELS[1]

\* MODELS.find((m) => m.id === id)
findModel(id) ==
    IF \E i \in DOMAIN MODELS : MODELS[i].id = id
    THEN MODELS[Min({ i \in DOMAIN MODELS : MODELS[i].id = id })]
    ELSE NoConfig

Concat[texts \in Seq(Text)] ==
    IF texts = <<>> THEN <<>> ELSE texts[1] \o Concat[Tail(texts)]

buildArbiterPrompt(question, r1, r2) ==
    <<"QUESTION:", "\n">> \o question \o <<"\n", "\n", "ROUND_1_ANSWERS:", "\n">>
    \o Concat[[i \in DOMAIN r1 |->
          <<"\n", "MODEL: ", r1[i].modelId, "\n", "FINAL_ANSWER:", "\n">>
          \o Field(r1[i], "finalAnswer") \o <<"\n", "REASONING:", "\n">>
          \o Field(r1[i], "reasoning") \o <<"\n">>]]
    \o <<"\n", "\n", "ROUND_2_UPDATED_ANSWERS:", "\n">>
    \o Concat[[i \in DOMAIN r2 |->
          <<"\n", "MODEL: ", r2[i].modelId, "\n", "UPDATED_", "FINAL_ANSWER:", "\n">>
          \o Field(r2[i], "revisedAnswer") \o <<"\n", "CRITIQUE:", "\n">>
          \o Field(r2[i], "critique") \o <<"\n">>]]

\* one provider call as callLLM issues it
Call(round, slot, config, systemPrompt, userPrompt, maxTokens) ==
    [ round |-> round, slot |-> slot, config |-> config,
      systemPrompt |-> systemPrompt, userPrompt |-> userPrompt,
      maxTokens |-> getMaxTokensForProvider(config.provider, maxTokens),
      status |-> "pending", outcome |-> Outcome("none", <<>>) ]

\* MODELS.map(async (model) => callLLM(model, R1_SYSTEM_PROMPT, userPrompt, clients))
round1Calls(question) ==
    [ i \in DOMAIN MODELS |->
        Call(1, i, MODELS[i], R1_SYSTEM_PROMPT, round1UserPrompt(question), 8192) ]

\* round1.map(async (self) => callLLM(modelConfig, R2_SYSTEM_PROMPT, userPrompt, clients)):
\* the provider calls issued, each at the slot of its agent; an agent whose
\* modelId names no entry of MODELS issues none
round2Calls(question, r1) ==
    SelectSeq([ i \in DOMAIN r1 |->
                  Call(2, i, findModel(r1[i].modelId), R2_SYSTEM_PROMPT,
                       buildRound2UserPrompt(question, r1[i], othersOf(r1, r1[i])),
                       8192) ],
              LAMBDA c : c.config # NoConfig)

\* callLLM throws for an agent without a config while the map is still
\* running: Promise.all rejects before any call of the round settles
runRound2Throws(r1) ==
    \E i \in DOMAIN r1 : findModel(r1[i].modelId) = NoConfig

\* the mutated Round 3: the arbiter is the last configured model
round3CallsLast(question, r1, r2) ==
    << Call(3, 1, MODELS[N], R3_SYSTEM_PROMPT,
            buildArbiterPrompt(question, r1, r2), 8192) >>

round3Calls(question, r1, r2) ==
    << Call(3, 1, ARBITER_MODEL, R3_SYSTEM_PROMPT,
            buildArbiterPrompt(question, r1, r2), 8192) >>

----------------------------------------------------------------------------
(* Requests and provider behaviour the model draws from *)

\* a JSON value of the body's question field; val is its literal
JsValue(type, val) == [type |-> type, val |-> val]

Question == <<"What is 15% of 240?">>

QuestionValues == {
    JsValue("undefined", <<>>),          \* the field is absent
    JsValue("null", <<>>),
    JsValue("number", <<"0">>), JsValue("number", <<"5">>),
    JsValue("boolean", <<"false">>), JsValue("boolean", <<"true">>),
    JsValue("object", <<"[]">>),
    JsValue("string", <<>>),             \* the empty string
    JsValue("string", Question) }

\* kind "unparseable": req.json() rejects; "null": JSON null; "nonobject": a
\* JSON number, string or boolean; "object": an object with this question
Bodies ==
    { [kind |-> k, question |-> JsValue("undefined", <<>>)] :
          k \in {"unparseable", "null", "nonobject"} }
    \cup { [kind |-> "object", question |-> q] : q \in QuestionValues }

\* !!v
Truthy(v) ==
    CASE v.type \in {"undefined", "null"} -> FALSE
      [] v.type = "number" -> v.val # <<"0">>
      [] v.type = "boolean" -> v.val = <<"true">>
      [] v.type = "string" -> v.val # <<>>
      [] OTHER -> TRUE

\* the mutated validation: only the type is tested
isStringOnly(v) == v.type = "string"

\* !(!question || typeof question !== 'string')
validQuestion(v) == Truthy(v) /\ v.type = "string"

R1Pool == <<
    <<"REASONING:", " ", "15% is 0.15", "\n", "\n", "FINAL_ANSWER:", " ", "36">>,
    <<>>,
    <<"36">>,
    <<"FINAL_ANSWER:", " ", "42">> >>

R2Pool == <<
    <<"CRITIQUE:", " ", "checked", "\n", "\n", "UPDATED_", "FINAL_ANSWER:", " ", "36">>,
    <<>>,
    <<"CRITIQUE:", " ", "no change">>,
    <<"UPDATED_", "FINAL_ANSWER:", " ", "\n">> >>

R3Pool == <<
    <<"ANALYSIS:", " ", "all agree", "\n", "\n", "FINAL_ANSWER:", " ", "36",
      "\n", "\n", "JUSTIFICATION:", " ", "verified">>,
    <<>>,
    <<"FINAL_ANSWER:", " ", "36", "\n", "\n", "RATIONALE:", " ", "majority">>,
    <<"36">> >>

Pool(round) == CASE round = 1 -> R1Pool [] round = 2 -> R2Pool [] OTHER -> R3Pool

Texts(round) ==
    { Pool(round)[i] : i \in { j \in DOMAIN Pool(round) : j <= NumTexts } }

\* what a call to the provider may do; google's last outcome, in Round 1, is
\* a text of white space only
Outcomes(provider, round) ==
    { Outcome("text", t) : t \in Texts(round) }
    \cup { Outcome("error", <<>>) }
    \cup CASE provider = "anthropic" ->
                { Outcome("nontext", <<>>), Outcome("nocontent", <<>>) }
           [] provider = "openai" -> { Outcome("nullcontent", <<>>) }
           [] provider = "google" ->
                { Outcome("textThrows", <<>>) }
                \cup IF round = 1 THEN { Outcome("text", <<"\\u00a0", "\n">>) } ELSE {}
           [] OTHER -> {}

----------------------------------------------------------------------------
(* POST *)

Response(status, responseBody) == [status |-> status, body |-> responseBody]

ErrorResponse(message) ==
    Response(500, [error |-> "Internal server error", message |-> message])

\* a utility called alone has not returned / has returned value
NotCalled == [returned |-> FALSE]
Returns(value) == [returned |-> TRUE, value |-> value]

Init ==
    /\ body \in Bodies
    /\ pc = "start"
    /\ calls = <<>>
    /\ results1 = <<>>
    /\ results2 = <<>>
    /\ round1 = <<>>
    /\ round2 = <<>>
    /\ responses = <<>>
    /\ fn = "POST"
    /\ args = <<>>
    /\ out = NotCalled

\* await req.json()
ParseBody ==
    /\ pc = "start"
    /\ IF body.kind = "unparseable"
       THEN /\ pc' = "done"
            /\ responses' = Append(responses, ErrorResponse("Unexpected token"))
       ELSE /\ pc' = "parsed"
            /\ UNCHANGED responses
    /\ UNCHANGED <<body, calls, results1, results2, round1, round2, fn, args, out>>

\* the destructuring of the body, the validation and the start of runRound1
Validate ==
    /\ pc = "parsed"
    /\ CASE body.kind = "null" ->
              /\ pc' = "done"
              /\ responses' = Append(responses,
                     ErrorResponse("Cannot destructure property 'question'"))
              /\ UNCHANGED <<calls, results1>>
         [] ~validQuestion(body.question) ->
              /\ pc' = "done"
              /\ responses' = Append(responses,
                     Response(400, [error |-> "Missing or invalid question"]))
              /\ UNCHANGED <<calls, results1>>
         [] OTHER ->
              /\ pc' = "r1"
              /\ calls' = calls \o round1Calls(body.question.val)
              /\ results1' = [i \in DOMAIN MODELS |-> Unfilled]
              /\ UNCHANGED responses
    /\ UNCHANGED <<body, results2, round1, round2, fn, args, out>>

\* the mutated settlement: a call that failed is issued again
SettledWithRetry(k, o, r) ==
    IF r.threw
    THEN Append([calls EXCEPT ![k].status = "failed", ![k].outcome = o], calls[k])
    ELSE [calls EXCEPT ![k].status = "returned", ![k].outcome = o]

Settled(k, o, r) ==
    [calls EXCEPT ![k].status = IF r.threw THEN "failed" ELSE "returned",
                  ![k].outcome = o]

\* a Round 1 call settles: callLLM's continuation, the map callback, and, when
\* Promise.all settles with it, POST up to its next await
SettleRound1(k, o) ==
    /\ k \in DOMAIN calls
    /\ calls[k].round = 1 /\ calls[k].status = "pending"
    /\ \E r \in {callLLM(calls[k].config, o)} :
       \E filled \in {storeResult(results1, calls[k].slot,
                                  Round1Answer(calls[k].config.id, r.text))} :
       LET rejects == pc = "r1" /\ r.threw
           resolves == pc = "r1" /\ ~r.threw /\ allFilled(filled)
           aborts == resolves /\ runRound2Throws(filled)
       IN  /\ results1' = IF r.threw THEN results1 ELSE filled
           /\ round1' = IF resolves THEN filled ELSE round1
           /\ calls' = IF resolves
                       THEN Settled(k, o, r) \o round2Calls(body.question.val, filled)
                       ELSE Settled(k, o, r)
           /\ results2' = IF resolves THEN [i \in DOMAIN filled |-> Unfilled]
                          ELSE results2
           /\ responses' =
                  IF rejects THEN Append(responses, ErrorResponse(r.message))
                  ELSE IF aborts
                       THEN Append(responses, ErrorResponse(UndefinedConfigMessage))
                       ELSE responses
           /\ pc' = IF rejects \/ aborts THEN "done"
                    ELSE IF resolves THEN "r2" ELSE pc
    /\ UNCHANGED <<body, round2, fn, args, out>>

\* the mutated result: chosenFrom names the agents whose revised answer is
\* the arbiter's final answer
DebateResultOfWinners(question, r1, r2, r3) ==
    [ question |-> question, round1 |-> r1, round2 |-> r2,
      finalAnswer |-> r3.finalAnswer, finalRationale |-> r3.rationale,
      chosenFrom |->
          LET winners == SelectSeq(r2, LAMBDA r : r.revisedAnswer = r3.finalAnswer)
          IN  [i \in DOMAIN winners |-> winners[i].modelId] ]

DebateResult(question, r1, r2, r3) ==
    [ question |-> question, round1 |-> r1, round2 |-> r2,
      finalAnswer |-> r3.finalAnswer, finalRationale |-> r3.rationale,
      chosenFrom |-> [i \in DOMAIN r2 |-> r2[i].modelId] ]

\* a Round 2 call settles
SettleRound2(k, o) ==
    /\ k \in DOMAIN calls
    /\ calls[k].round = 2 /\ calls[k].status = "pending"
    /\ \E r \in {callLLM(calls[k].config, o)} :
       \E filled \in {storeResult(results2, calls[k].slot,
                                  Round2Critique(round1[calls[k].slot], r.text))} :
       LET rejects == pc = "r2" /\ r.threw
           resolves == pc = "r2" /\ ~r.threw /\ allFilled(filled)
       IN  /\ results2' = IF r.threw THEN results2 ELSE filled
           /\ round2' = IF resolves THEN filled ELSE round2
           /\ calls' = IF resolves
                       THEN Settled(k, o, r)
                              \o round3Calls(body.question.val, round1, filled)
                       ELSE Settled(k, o, r)
           /\ responses' = IF rejects THEN Append(responses, ErrorResponse(r.message))
                           ELSE responses
           /\ pc' = IF rejects THEN "done" ELSE IF resolves THEN "r3" ELSE pc
    /\ UNCHANGED <<body, results1, round1, fn, args, out>>

\* the arbiter's call settles
SettleRound3(k, o) ==
    /\ k \in DOMAIN calls
    /\ calls[k].round = 3 /\ calls[k].status = "pending"
    /\ \E r \in {callLLM(calls[k].config, o)} :
       /\ calls' = Settled(k, o, r)
       /\ IF pc = "r3"
          THEN /\ pc' = "done"
               /\ responses' = Append(responses,
                    IF r.threw
                    THEN ErrorResponse(r.message)
                    ELSE Response(200, DebateResult(body.question.val, round1, round2,
                                                    Round3Result(r.text))))
          ELSE UNCHANGED <<pc, responses>>
    /\ UNCHANGED <<body, results1, results2, round1, round2, fn, args, out>>

Settle1 == \E k \in DOMAIN calls : \E o \in Outcomes(calls[k].config.provider, 1) :
               SettleRound1(k, o)
Settle2 == \E k \in DOMAIN calls : \E o \in Outcomes(calls[k].config.provider, 2) :
               SettleRound2(k, o)
Settle3 == \E k \in DOMAIN calls : \E o \in Outcomes(calls[k].config.provider, 3) :
               SettleRound3(k, o)

Next == ParseBody \/ Validate \/ Settle1 \/ Settle2 \/ Settle3

Spec == Init /\ [][Next]_vars

\* every step of POST that can run does run, and every issued call settles
FairSpec == Spec /\ WF_vars(Next)

----------------------------------------------------------------------------
(* The utilities called alone: one call of getMaxTokensForProvider, of      *)
(* extractBetween or of extractAfter, or the parsing one round does with    *)
(* the text callLLM returned, on arguments drawn from bounded sets          *)

\* the longest text a utility is called with, in tokens
MaxLen == 6

\* the words of a response text: markers, content, and white space inside
\* and outside ASCII
Alphabet == {"REASONING:", "FINAL_ANSWER:", "UPDATED_", "a", "\n", "\\u00a0"}

TextsUpTo(n) == UNION { [1 .. k -> Alphabet] : k \in 0 .. n }

\* the words of a Round 2 and of a Round 3 response text
Round2Alphabet == {"CRITIQUE:", "UPDATED_", "FINAL_ANSWER:", "a", "\n", "\\u00a0"}
Round3Alphabet == {"FINAL_ANSWER:", "JUSTIFICATION:", "RATIONALE:", "a", "\n", "\\u00a0"}

TextsOver(alphabet, n) == UNION { [1 .. k -> alphabet] : k \in 0 .. n }

\* the round1 array runRound2 is called with: three different final answers,
\* gemini's from the fallback payload
SampleRound1 == <<
    Round1Answer(MODELS[1].id, R1Pool[1]),
    Round1Answer(MODELS[2].id, R1Pool[4]),
    Round1Answer(MODELS[3].id, FallbackFailed) >>

\* <<startMarker, endMarker>> pairs: the pair runRound1 uses, the end marker
\* runRound2 uses, and a pair whose end marker is its start marker
BetweenMarkers == {
    << <<"REASONING:">>, <<"FINAL_ANSWER:">> >>,
    << <<"REASONING:">>, <<"UPDATED_", "FINAL_ANSWER:">> >>,
    << <<"FINAL_ANSWER:">>, <<"FINAL_ANSWER:">> >> }

\* the markers runRound1/runRound3 and runRound2 pass to extractAfter
AfterMarkers == { <<"FINAL_ANSWER:">>, <<"UPDATED_", "FINAL_ANSWER:">> }

Providers == { MODELS[i].provider : i \in DOMAIN MODELS }

\* requested maxTokens values around the providers' limits; 8192 is the
\* default of callLLM and the value runRound3 passes
RequestedTokens == {1, 4095, 4096, 4097, 8191, 8192, 8193}

Idle == [kind |-> "none", question |-> JsValue("undefined", <<>>)]

UtilInit ==
    /\ body = Idle
    /\ pc = "util"
    /\ calls = <<>>
    /\ results1 = <<>>
    /\ results2 = <<>>
    /\ round1 = <<>>
    /\ round2 = <<>>
    /\ responses = <<>>
    /\ out = NotCalled
    /\ \/ /\ fn = "getMaxTokensForProvider"
          /\ args \in [provider : Providers, requested : RequestedTokens]
       \/ /\ fn = "extractBetween"
          /\ \E t \in TextsUpTo(MaxLen) : \E m \in BetweenMarkers :
                args = [text |-> t, startMarker |-> m[1], endMarker |-> m[2]]
       \/ /\ fn = "extractAfter"
          /\ \E t \in TextsUpTo(MaxLen) : \E m \in AfterMarkers :
                args = [text |-> t, marker |-> m]
       \/ /\ fn = "runRound1"
          /\ \E t \in TextsUpTo(MaxLen) :
                args = [model |-> MODELS[1], responseText |-> t]
       \/ /\ fn = "runRound2"
          /\ \E t \in TextsOver(Round2Alphabet, MaxLen) : \E i \in DOMAIN SampleRound1 :
                args = [round1 |-> SampleRound1, index |-> i, responseText |-> t]
       \/ /\ fn = "runRound3"
          /\ \E t \in TextsOver(Round3Alphabet, MaxLen) :
                args = [responseText |-> t]

CallGetMaxTokens ==
    /\ fn = "getMaxTokensForProvider" /\ ~out.returned
    /\ out' = Returns(getMaxTokensForProvider(args.provider, args.requested))
    /\ UNCHANGED <<body, pc, calls, results1, results2, round1, round2, responses,
                   fn, args>>

CallExtractBetween ==
    /\ fn = "extractBetween" /\ ~out.returned
    /\ out' = Returns(extractBetween(args.text, args.startMarker, args.endMarker))
    /\ UNCHANGED <<body, pc, calls, results1, results2, round1, round2, responses,
                   fn, args>>

CallExtractAfter ==
    /\ fn = "extractAfter" /\ ~out.returned
    /\ out' = Returns(extractAfter(args.text, args.marker))
    /\ UNCHANGED <<body, pc, calls, results1, results2, round1, round2, responses,
                   fn, args>>

\* the map callback of runRound1 once callLLM has returned responseText
ParseRound1 ==
    /\ fn = "runRound1" /\ ~out.returned
    /\ out' = Returns(Round1Answer(args.model.id, args.responseText))
    /\ UNCHANGED <<body, pc, calls, results1, results2, round1, round2, responses,
                   fn, args>>

\* the map callback of runRound2, for self = round1[index], once callLLM has
\* returned responseText
ParseRound2 ==
    /\ fn = "runRound2" /\ ~out.returned
    /\ out' = Returns(Round2Critique(args.round1[args.index], args.responseText))
    /\ UNCHANGED <<body, pc, calls, results1, results2, round1, round2, responses,
                   fn, args>>

\* runRound3 once callLLM has returned responseText
ParseRound3 ==
    /\ fn = "runRound3" /\ ~out.returned
    /\ out' = Returns(Round3Result(args.responseText))
    /\ UNCHANGED <<body, pc, calls, results1, results2, round1, round2, responses,
                   fn, args>>

UtilNext ==
    \/ CallGetMaxTokens \/ CallExtractBetween \/ CallExtractAfter
    \/ ParseRound1 \/ ParseRound2 \/ ParseRound3

UtilSpec == UtilInit /\ [][UtilNext]_vars

----------------------------------------------------------------------------
(* Vocabulary of the properties *)

CallsOfRound(r) == { k \in DOMAIN calls : calls[k].round = r }

Pending(k) == calls[k].status = "pending"

\* the provider did not deliver a readable response: the call rejected, or
\* the response had no content block, or reading its text raised
ProviderFailed(c) == c.outcome.kind \in {"error", "nocontent", "textThrows"}

HardFailed(c) == c.config.provider \in {"anthropic", "openai"} /\ ProviderFailed(c)

\* the best-effort provider failed or returned an empty payload
SoftFailed(c) ==
    /\ c.config.provider = "google"
    /\ \/ ProviderFailed(c)
       \/ c.outcome.kind = "text" /\ Trim(c.outcome.text) = <<>>

NoHardFailure == \A k \in DOMAIN calls : ~HardFailed(calls[k])

ValidBody == body.kind = "object" /\ body.question.type = "string"
             /\ body.question.val # <<>>

Responded(status) == Len(responses) = 1 /\ responses[1].status = status

CountOcc(text, marker) ==
    Cardinality({ i \in 0 .. (Len(text) - Len(marker)) :
                    SubSeq(text, i + 1, i + Len(marker)) = marker })

\* the round's call of every configured agent has returned a result
AllReturned(r) ==
    \A i \in DOMAIN MODELS :
        \E k \in CallsOfRound(r) :
            calls[k].config = MODELS[i] /\ calls[k].status = "returned"

----------------------------------------------------------------------------
(* C1 *)

\* C1: no Round 2 call is issued before every configured agent's Round 1 call
\* has returned a result, and the Round 3 call is not issued before every
\* agent's Round 2 call has returned a result.
C1_RoundsSequential ==
    /\ CallsOfRound(2) # {} => AllReturned(1)
    /\ CallsOfRound(3) # {} => AllReturned(1) /\ AllReturned(2)

C1_Witness == \E k \in CallsOfRound(3) : Pending(k)

----------------------------------------------------------------------------
(* C2 *)

InConfiguredOrder(results) ==
    /\ Len(results) = N
    /\ \A i \in DOMAIN results :
           results[i] # Unfilled => results[i].modelId = MODELS[i].id

\* C2: whatever the order in which the calls of a round complete, each result
\* sits at the index of its agent in MODELS; a 200 response holds exactly one
\* round1 and one round2 entry per configured agent, in MODELS order.
C2_ConfiguredOrder ==
    /\ results1 # <<>> => InConfiguredOrder(results1)
    /\ results2 # <<>> => InConfiguredOrder(results2)
    /\ \A n \in DOMAIN responses :
         responses[n].status = 200 =>
           /\ Len(responses[n].body.round1) = N
           /\ Len(responses[n].body.round2) = N
           /\ \A i \in 1 .. N :
                /\ responses[n].body.round1[i].modelId = MODELS[i].id
                /\ responses[n].body.round2[i].modelId = MODELS[i].id

\* the last agent's call completed while the first agent's is still pending
C2_Witness ==
    /\ pc = "r2"
    /\ results2[N] # Unfilled /\ results2[N].modelId = MODELS[N].id
    /\ results2[1] = Unfilled

----------------------------------------------------------------------------
(* C3 *)

\* C3: once a call to anthropic or openai has failed, in any round, the one
\* response is a 500 whose body holds only error and message, and no call of a
\* later round has been issued.
C3_HardFailureAborts ==
    \A k \in DOMAIN calls :
        HardFailed(calls[k]) =>
            /\ Responded(500)
            /\ DOMAIN responses[1].body = {"error", "message"}
            /\ \A j \in DOMAIN calls : calls[j].round <= calls[k].round

C3_Witness ==
    \E k \in CallsOfRound(2) :
        /\ HardFailed(calls[k]) /\ calls[k].config.provider = "openai"
        /\ Responded(500)

----------------------------------------------------------------------------
(* C4 *)

\* C4: when google's Round 1 call fails or returns an empty payload, its
\* Round1Answer has finalAnswer exactly "No answer provided"; and if no
\* anthropic/openai call fails, POST stays in progress until it ends with a
\* 200 response that holds this answer.
C4_SoftFailureSentinel ==
    \A k \in CallsOfRound(1) :
        SoftFailed(calls[k]) =>
            /\ results1[calls[k].slot].finalAnswer = NoAnswerProvided
            /\ NoHardFailure =>
                 /\ pc # "done" => \E j \in DOMAIN calls : Pending(j)
                 /\ pc = "done" =>
                      /\ Responded(200)
                      /\ responses[1].body.round1[calls[k].slot].finalAnswer
                           = NoAnswerProvided
                      /\ AllReturned(2) /\ CallsOfRound(3) # {}

\* google answered Round 1 with a no-break space and a line feed, an empty
\* payload, and the debate ended with 200
C4_Witness ==
    /\ Responded(200)
    /\ \E k \in CallsOfRound(1) :
         /\ SoftFailed(calls[k])
         /\ calls[k].outcome = Outcome("text", <<"\\u00a0", "\n">>)
         /\ responses[1].body.round1[calls[k].slot].rawAnswer = FallbackEmpty

----------------------------------------------------------------------------
(* C5 *)

UnusableQuestion ==
    /\ body.kind = "object"
    /\ body.question.type # "string" \/ body.question.val = <<>>

\* C5: for a body whose question is absent, not a string or the empty string,
\* no provider call is ever issued and the response is 400 with body {error}.
C5_InvalidQuestionRejected ==
    UnusableQuestion =>
        /\ calls = <<>>
        /\ pc \in {"start", "parsed", "done"}
        /\ pc = "done" => Responded(400) /\ DOMAIN responses[1].body = {"error"}
        /\ pc # "done" => responses = <<>>

C5_Witness ==
    /\ UnusableQuestion /\ body.question = JsValue("string", <<>>)
    /\ Responded(400)

----------------------------------------------------------------------------
(* C6 *)

\* C6: in every 200 response every required field is a non-empty string:
\* each Round1Answer's reasoning and finalAnswer, each Round2Critique's
\* critique and revisedAnswer, the top-level finalAnswer and finalRationale.
C6_AllFieldsNonEmpty ==
    \A n \in DOMAIN responses :
        responses[n].status = 200 =>
            LET d == responses[n].body IN
            /\ \A i \in DOMAIN d.round1 :
                   d.round1[i].reasoning # <<>> /\ d.round1[i].finalAnswer # <<>>
            /\ \A i \in DOMAIN d.round2 :
                   d.round2[i].critique # <<>> /\ d.round2[i].revisedAnswer # <<>>
            /\ d.finalAnswer # <<>>
            /\ d.finalRationale # <<>>

----------------------------------------------------------------------------
(* C7 *)

AnswerLabel(id) == <<"ANSWER_FROM_", id, ":">>
OwnLabel(id) == <<"YOUR_PREVIOUS_ANSWER (", id, "):">>

\* C7: the Round 2 prompt built for agent X holds one ANSWER_FROM_ block for
\* every configured agent other than X, with that agent's Round 1 answer, and
\* none for X; X's own answer is under YOUR_PREVIOUS_ANSWER, before the blocks.
C7_OthersExcludeSelf ==
    \A k \in CallsOfRound(2) :
        LET X == calls[k].config.id
            p == calls[k].userPrompt
            others == Substring(p, IndexOf[p, <<"ANSWER_FROM_">>, 0], Len(p))
        IN  /\ CountOcc(p, <<"ANSWER_FROM_">>) = N - 1
            /\ \A i \in DOMAIN MODELS :
                 IF MODELS[i].id = X
                 THEN /\ CountOcc(p, AnswerLabel(X)) = 0
                      /\ CountOcc(p, OwnLabel(X)) = 1
                      /\ CountOcc(others, OwnLabel(X)) = 0
                      /\ round1[i].modelId = X
                 ELSE /\ CountOcc(p, AnswerLabel(MODELS[i].id)) = 1
                      /\ CountOcc(others, othersBlock(round1[i])) = 1
                      /\ CountOcc(p, OwnLabel(MODELS[i].id)) = 0

C7_Witness ==
    \E k \in CallsOfRound(2) :
        /\ calls[k].config.id = "gpt"
        /\ CountOcc(calls[k].userPrompt, othersBlock(round1[1])) = 1
        /\ CountOcc(calls[k].userPrompt, othersBlock(round1[3])) = 1

----------------------------------------------------------------------------
(* C8 *)

\* no revised answer was obtained from the Round 2 call: the provider
\* soft-failed, or the returned text yields no UPDATED_FINAL_ANSWER content
NoRevisedAnswer(c) ==
    \/ SoftFailed(c)
    \/ /\ c.status = "returned" /\ ~ProviderFailed(c)
       /\ extractAfter(c.outcome.text, <<"UPDATED_", "FINAL_ANSWER:">>) = <<>>

\* C8: for an agent whose Round 1 finalAnswer is a real answer, a Round 2 call
\* that yields no revised answer (a provider soft-failure included) gives
\* revisedAnswer equal to the agent's Round 1 finalAnswer, never the sentinel.
C8_RevisedFallsBackToRound1 ==
    \A k \in CallsOfRound(2) :
        LET i == calls[k].slot IN
        ( /\ calls[k].status = "returned"
          /\ round1[i].finalAnswer # NoAnswerProvided
          /\ NoRevisedAnswer(calls[k]) )
        => /\ results2[i].revisedAnswer = round1[i].finalAnswer
           /\ results2[i].revisedAnswer # NoAnswerProvided

----------------------------------------------------------------------------
(* C9 *)

CompleteDebateResult(d) ==
    /\ DOMAIN d = {"question", "round1", "round2", "finalAnswer",
                   "finalRationale", "chosenFrom"}
    /\ d.question = body.question.val
    /\ Len(d.round1) = N /\ Len(d.round2) = N /\ Len(d.chosenFrom) = N
    /\ \A i \in 1 .. N :
         /\ DOMAIN d.round1[i] = {"modelId", "rawAnswer", "reasoning", "finalAnswer"}
         /\ DOMAIN d.round2[i] = {"modelId", "rawCritique", "critique", "revisedAnswer"}

\* C9: provided every issued call settles, POST produces exactly one response,
\* with status 200, 400 or 500; it is 200 with a complete DebateResult whenever
\* the question is valid and no anthropic/openai call fails.
C9_Terminates ==
    /\ <>(pc = "done" /\ Len(responses) = 1)
    /\ [](Len(responses) <= 1)
    /\ [](\A n \in DOMAIN responses : responses[n].status \in {200, 400, 500})
    /\ []((pc = "done" /\ ValidBody /\ NoHardFailure) =>
             /\ Responded(200)
             /\ CompleteDebateResult(responses[1].body))

\* a 200 response despite a google failure and an extraction miss
C9_Witness ==
    /\ Responded(200)
    /\ \E k \in CallsOfRound(2) : calls[k].outcome.kind = "textThrows"
    /\ \E k \in CallsOfRound(1) :
         /\ calls[k].outcome.kind = "text"
         /\ calls[k].config.provider = "anthropic"
         /\ extractAfter(calls[k].outcome.text, <<"FINAL_ANSWER:">>) = <<>>

----------------------------------------------------------------------------
(* C10 *)

\* C10 as claimed: no response is sent while a provider call is pending.
C10_NoResponseWhilePending ==
    responses # <<>> => \A k \in DOMAIN calls : ~Pending(k)

\* C10 as amended: a round is complete (its results go to the next round or to
\* the 200 response) only after every call of that round has returned; a
\* response sent while a call is pending is the 500 of a hard failure in the
\* pending call's round.
C10_BarrierUnlessHardFailure ==
    \A k \in DOMAIN calls :
        Pending(k) =>
            /\ \A j \in DOMAIN calls : calls[j].round <= calls[k].round
            /\ responses # <<>> =>
                 /\ Responded(500)
                 /\ \E j \in CallsOfRound(calls[k].round) : HardFailed(calls[j])

C10_Witness ==
    /\ Responded(500)
    /\ \E k \in CallsOfRound(1) : Pending(k) /\ calls[k].config.provider = "google"

----------------------------------------------------------------------------
(* C11 *)

Ceiling(provider) ==
    CASE provider = "openai" -> 4096
      [] provider = "anthropic" -> 4096
      [] provider = "google" -> 8192

\* C11: for every provider and every requested maxTokens, the budget sent is
\* the smaller of the requested value and the provider's ceiling (openai 4096,
\* anthropic 4096, google 8192), so it never exceeds the ceiling; the arbiter's
\* request of 8192 is sent as 4096.
C11_BudgetClamped ==
    (fn = "getMaxTokensForProvider" /\ out.returned) =>
        /\ out.value <= Ceiling(args.provider)
        /\ out.value <= args.requested
        /\ out.value \in {args.requested, Ceiling(args.provider)}
        /\ (args.provider = ARBITER_MODEL.provider /\ args.requested = 8192)
              => out.value = 4096

\* the arbiter's request, clamped
C11_Witness ==
    /\ fn = "getMaxTokensForProvider" /\ out.returned
    /\ args.provider = ARBITER_MODEL.provider /\ args.requested = 8192
    /\ out.value = 4096

----------------------------------------------------------------------------
(* C12 *)

\* the markers runRound1 and runRound2 extract with
Round12Markers == { <<"REASONING:">>, <<"FINAL_ANSWER:">>, <<"CRITIQUE:">>,
                    <<"UPDATED_", "FINAL_ANSWER:">> }

\* C12: the payload callLLM returns on a soft-failure contains every marker a
\* round extracts with (REASONING:, FINAL_ANSWER:, CRITIQUE:,
\* UPDATED_FINAL_ANSWER:, and Round 3's JUSTIFICATION: or RATIONALE:), and each
\* extraction of Round 1, Round 2 and Round 3 on it returns a non-empty value.
C12_FallbackHasEveryMarker ==
    \A k \in DOMAIN calls :
        (SoftFailed(calls[k]) /\ calls[k].status = "returned") =>
            LET payload == callLLM(calls[k].config, calls[k].outcome).text IN
            /\ \A m \in Round12Markers : IndexOf[payload, m, 0] # -1
            /\ \/ IndexOf[payload, <<"JUSTIFICATION:">>, 0] # -1
               \/ IndexOf[payload, <<"RATIONALE:">>, 0] # -1
            /\ extractBetween(payload, <<"REASONING:">>, <<"FINAL_ANSWER:">>) # <<>>
            /\ extractAfter(payload, <<"FINAL_ANSWER:">>) # <<>>
            /\ extractBetween(payload, <<"CRITIQUE:">>,
                              <<"UPDATED_", "FINAL_ANSWER:">>) # <<>>
            /\ extractAfter(payload, <<"UPDATED_", "FINAL_ANSWER:">>) # <<>>
            /\ \/ extractAfter(payload, <<"JUSTIFICATION:">>) # <<>>
               \/ extractAfter(payload, <<"RATIONALE:">>) # <<>>

\* the part of C12 the code meets: the markers and extractions of Rounds 1, 2
C12_Rounds12Only ==
    \A k \in DOMAIN calls :
        (SoftFailed(calls[k]) /\ calls[k].status = "returned") =>
            LET payload == callLLM(calls[k].config, calls[k].outcome).text IN
            /\ \A m \in Round12Markers : IndexOf[payload, m, 0] # -1
            /\ extractBetween(payload, <<"REASONING:">>, <<"FINAL_ANSWER:">>) # <<>>
            /\ extractAfter(payload, <<"FINAL_ANSWER:">>) # <<>>
            /\ extractBetween(payload, <<"CRITIQUE:">>,
                              <<"UPDATED_", "FINAL_ANSWER:">>) # <<>>
            /\ extractAfter(payload, <<"UPDATED_", "FINAL_ANSWER:">>) # <<>>

----------------------------------------------------------------------------
(* C13 *)

\* marker occurs in text at the 0-based position i
Occurs(text, marker, i) ==
    /\ i >= 0 /\ i + Len(marker) <= Len(text)
    /\ SubSeq(text, i + 1, i + Len(marker)) = marker

\* res is content without the whitespace at its two ends
IsTrimOf(res, content) ==
    /\ res # <<>> => ~IsWhitespace(res[1]) /\ ~IsWhitespace(res[Len(res)])
    /\ \E a \in 0 .. Len(content) : \E b \in a .. Len(content) :
          /\ res = SubSeq(content, a + 1, b)
          /\ \A i \in (1 .. a) \cup ((b + 1) .. Len(content)) :
                 IsWhitespace(content[i])

\* C13: extractBetween returns the empty string if the start marker does not
\* occur; otherwise the trimmed text from just after the first start marker up
\* to the first end marker located after it, or to the end of the text if no
\* end marker occurs after it.
C13_ExtractBetweenContract ==
    (fn = "extractBetween" /\ out.returned) =>
        LET t == args.text
            starts == { i \in 0 .. Len(t) : Occurs(t, args.startMarker, i) }
        IN  IF starts = {} THEN out.value = <<>>
            ELSE LET from == Min(starts) + Len(args.startMarker)
                     ends == { j \in from .. Len(t) : Occurs(t, args.endMarker, j) }
                 IN  IF ends = {}
                     THEN IsTrimOf(out.value, SubSeq(t, from + 1, Len(t)))
                     ELSE IsTrimOf(out.value, SubSeq(t, from + 1, Min(ends)))

\* an end marker before the start marker is passed over, the content trimmed
C13_Witness ==
    /\ fn = "extractBetween" /\ out.returned
    /\ args.text = <<"FINAL_ANSWER:", "REASONING:", "\\u00a0", "a", "FINAL_ANSWER:">>
    /\ args.startMarker = <<"REASONING:">> /\ args.endMarker = <<"FINAL_ANSWER:">>
    /\ out.value = <<"a">>

----------------------------------------------------------------------------
(* C14 *)

\* the known next-section labels, as the claim lists them
KnownLabels == {
    <<"RATIONALE:">>, <<"REASONING:">>, <<"FINAL_ANSWER:">>, <<"CRITIQUE:">>,
    <<"UPDATED_", "FINAL_ANSWER:">>, <<"JUSTIFICATION:">>, <<"ANALYSIS:">>,
    <<"UNDERSTANDING:">>, <<"APPROACH:">>, <<"SOLUTION:">>, <<"VERIFICATION:">>,
    <<"CONFIDENCE:">>, <<"SOLUTIONS_REVIEWED:">>, <<"BREAK_ATTEMPTS:">>,
    <<"BLIND_SPOT_CHECK:">> }

\* the 0-based positions at or after from where a known label starts
LabelsFrom(text, from) ==
    { j \in from .. Len(text) : \E l \in KnownLabels : Occurs(text, l, j) }

\* C14: for a text that contains the marker, extractAfter returns the trimmed
\* text from just after the first marker up to the nearest following known
\* next-section label, however the label is separated from the content before
\* it; the result contains no label of a following section.
C14_CutAtNearestLabel ==
    (fn = "extractAfter" /\ out.returned
       /\ \E i \in 0 .. Len(args.text) : Occurs(args.text, args.marker, i)) =>
        LET t == args.text
            from == Min({ i \in 0 .. Len(t) : Occurs(t, args.marker, i) })
                      + Len(args.marker)
            labels == LabelsFrom(t, from)
            end == IF labels = {} THEN Len(t) ELSE Min(labels)
        IN  /\ IsTrimOf(out.value, SubSeq(t, from + 1, end))
            /\ LabelsFrom(out.value, 0) = {}

\* what the code does: only a label that follows a blank line ("\n\n" before
\* it) inside the trimmed remainder of the text ends the section
C14_CutAtBlankLineLabel ==
    (fn = "extractAfter" /\ out.returned
       /\ \E i \in 0 .. Len(args.text) : Occurs(args.text, args.marker, i)) =>
        LET t == args.text
            from == Min({ i \in 0 .. Len(t) : Occurs(t, args.marker, i) })
                      + Len(args.marker)
            rest == Trim(SubSeq(t, from + 1, Len(t)))
            cuts == { j \in 0 .. Len(rest) :
                        /\ Occurs(rest, <<"\n", "\n">>, j)
                        /\ j + 2 \in LabelsFrom(rest, j + 2) }
            end == IF cuts = {} THEN Len(rest) ELSE Min(cuts)
        IN  IsTrimOf(out.value, SubSeq(rest, 1, end))

----------------------------------------------------------------------------
(* C15 *)

\* C15: when the marker is followed by lines of content, blank lines between
\* them or not, and no known next-section label follows it, extractAfter
\* returns everything after the marker, trimmed at its two ends only.
C15_AllLinesKept ==
    (fn = "extractAfter" /\ out.returned
       /\ \E i \in 0 .. Len(args.text) : Occurs(args.text, args.marker, i)) =>
        LET t == args.text
            from == Min({ i \in 0 .. Len(t) : Occurs(t, args.marker, i) })
                      + Len(args.marker)
        IN  LabelsFrom(t, from) = {} =>
                IsTrimOf(out.value, SubSeq(t, from + 1, Len(t)))

\* two lines with a blank line between them, both returned
C15_Witness ==
    /\ fn = "extractAfter" /\ out.returned
    /\ args.text = <<"FINAL_ANSWER:", "\\u00a0", "a", "\n", "\n", "a">>
    /\ args.marker = <<"FINAL_ANSWER:">>
    /\ out.value = <<"a", "\n", "\n", "a">>

----------------------------------------------------------------------------
(* C16 *)

\* the text between the two markers of a text that starts with s, ends with e
ContentOf(t, s, e) == SubSeq(t, Len(s) + 1, Len(t) - Len(e))

\* t is s, then content, then e, and neither marker occurs in the content
WellFormed(t, s, e) ==
    /\ Len(t) >= Len(s) + Len(e)
    /\ Occurs(t, s, 0) /\ Occurs(t, e, Len(t) - Len(e))
    /\ \A i \in 0 .. Len(ContentOf(t, s, e)) :
          ~Occurs(ContentOf(t, s, e), s, i) /\ ~Occurs(ContentOf(t, s, e), e, i)

ExtractedWellFormed ==
    /\ fn = "extractBetween" /\ out.returned
    /\ WellFormed(args.text, args.startMarker, args.endMarker)

\* C16 as claimed: on a well-formed text whose markers do not recur in the
\* content, extractBetween applied to its own output returns that output.
C16_Idempotent ==
    ExtractedWellFormed =>
        extractBetween(out.value, args.startMarker, args.endMarker) = out.value

\* C16 as amended: on such a text extractBetween returns the trimmed content,
\* and applied to that output, which holds no start marker, it returns the
\* empty string; the two results are equal only when the content is blank.
C16_SecondPassEmpty ==
    ExtractedWellFormed =>
        /\ IsTrimOf(out.value,
                    ContentOf(args.text, args.startMarker, args.endMarker))
        /\ extractBetween(out.value, args.startMarker, args.endMarker) = <<>>
        /\ (extractBetween(out.value, args.startMarker, args.endMarker) = out.value)
              <=> \A i \in DOMAIN ContentOf(args.text, args.startMarker,
                                            args.endMarker) :
                     IsWhitespace(ContentOf(args.text, args.startMarker,
                                            args.endMarker)[i])

C16_Witness ==
    /\ ExtractedWellFormed
    /\ args.text = <<"REASONING:", "\\u00a0", "a", "\n", "FINAL_ANSWER:">>
    /\ out.value = <<"a">>
    /\ extractBetween(out.value, args.startMarker, args.endMarker) = <<>>

----------------------------------------------------------------------------
(* C17 *)

MalformedBody == body.kind \in {"unparseable", "null", "nonobject"}

\* C17: a request whose body is unparseable JSON, JSON null or a non-object
\* value is rejected with the client-error status 400 and body {error}, before
\* any provider call is issued, and never with the server-error status 500.
C17_MalformedBodyRejected ==
    MalformedBody =>
        /\ calls = <<>>
        /\ pc = "done" => Responded(400) /\ DOMAIN responses[1].body = {"error"}
        /\ \A n \in DOMAIN responses : responses[n].status # 500

\* the part of C17 the code meets: no round runs, and a non-object value is
\* answered 400 {error}
C17_NonObjectRejected ==
    MalformedBody =>
        /\ calls = <<>>
        /\ (pc = "done" /\ body.kind = "nonobject") =>
              Responded(400) /\ DOMAIN responses[1].body = {"error"}
        /\ (pc = "done" /\ body.kind # "nonobject") => Responded(500)

----------------------------------------------------------------------------
(* C18 *)

\* C18: the Round 2 call that produces agent X's critique goes to the MODELS
\* entry whose id is X, the provider and model of the Round 1 call that
\* produced X's answer, and its result is stored as X's.
C18_SameBindingInRound2 ==
    \A k \in CallsOfRound(2) :
        LET i == calls[k].slot
            X == round1[i].modelId
        IN  /\ calls[k].config.id = X
            /\ \E m \in DOMAIN MODELS : MODELS[m].id = X /\ calls[k].config = MODELS[m]
            /\ \E j \in CallsOfRound(1) :
                  /\ calls[j].config = calls[k].config
                  /\ calls[j].status = "returned"
                  /\ round1[i].rawAnswer
                       = callLLM(calls[j].config, calls[j].outcome).text
            /\ results2[i] # Unfilled => results2[i].modelId = X

\* gemini's critique has come from the google binding that answered in Round 1
C18_Witness ==
    \E k \in CallsOfRound(2) :
        /\ calls[k].status = "returned"
        /\ calls[k].config.provider = "google"
        /\ round1[calls[k].slot].modelId = "gemini"
        /\ results2[calls[k].slot].modelId = "gemini"

----------------------------------------------------------------------------
(* C19 *)

\* an agent's Round 1 answer and Round 2 critique as the arbiter is shown them
ArbiterRound1Block(r) ==
    <<"MODEL: ", r.modelId, "\n", "FINAL_ANSWER:", "\n">> \o r.finalAnswer
    \o <<"\n", "REASONING:", "\n">> \o r.reasoning \o <<"\n">>

ArbiterRound2Block(r) ==
    <<"MODEL: ", r.modelId, "\n", "UPDATED_", "FINAL_ANSWER:", "\n">>
    \o r.revisedAnswer \o <<"\n", "CRITIQUE:", "\n">> \o r.critique \o <<"\n">>

\* C19: Round 3 is exactly one provider call, addressed to MODELS[0] (claude)
\* whatever the answers are and whichever agents soft-failed, and its prompt
\* holds every agent's Round 1 finalAnswer and reasoning and every agent's
\* Round 2 revisedAnswer and critique.
C19_SingleFixedArbiter ==
    /\ Cardinality(CallsOfRound(3)) <= 1
    /\ (pc = "r3" \/ Responded(200)) => Cardinality(CallsOfRound(3)) = 1
    /\ \A k \in CallsOfRound(3) :
          /\ calls[k].config = MODELS[1]
          /\ calls[k].config.id = "claude"
          /\ Len(round1) = N /\ Len(round2) = N
          /\ \A i \in 1 .. N :
                /\ round1[i].modelId = MODELS[i].id
                /\ round2[i].modelId = MODELS[i].id
                /\ CountOcc(calls[k].userPrompt, ArbiterRound1Block(round1[i])) >= 1
                /\ CountOcc(calls[k].userPrompt, ArbiterRound2Block(round2[i])) >= 1

\* the arbiter has been called although gemini soft-failed in both rounds and
\* the other two agents disagree
C19_Witness ==
    /\ \E k \in CallsOfRound(3) : calls[k].config.provider = "anthropic"
    /\ \E j \in CallsOfRound(1) : SoftFailed(calls[j])
    /\ \E j \in CallsOfRound(2) : SoftFailed(calls[j])
    /\ round1[1].finalAnswer # round1[2].finalAnswer

----------------------------------------------------------------------------
(* C20 *)

Tokens(text) == { text[i] : i \in DOMAIN text }

ModelIds == { MODELS[i].id : i \in DOMAIN MODELS }

\* the fixed words of the Round 2 and of the Round 3 user prompt
Round2Template ==
    {"QUESTION:", "\n", "YOUR_PREVIOUS_ANSWER (", "):", "REASONING:",
     "FINAL_ANSWER:", "ANSWER_FROM_", ":"} \cup ModelIds

Round3Template ==
    {"QUESTION:", "\n", "ROUND_1_ANSWERS:", "MODEL: ", "FINAL_ANSWER:",
     "REASONING:", "ROUND_2_UPDATED_ANSWERS:", "UPDATED_", "CRITIQUE:"}
    \cup ModelIds

Round1Tokens ==
    UNION { Tokens(round1[i].reasoning) \cup Tokens(round1[i].finalAnswer) :
              i \in DOMAIN round1 }

Round2Tokens ==
    UNION { Tokens(round2[i].critique) \cup Tokens(round2[i].revisedAnswer) :
              i \in DOMAIN round2 }

\* every prompt is made of its template, the question and the results of the
\* rounds before it
PromptSources ==
    /\ \A k \in CallsOfRound(1) :
          calls[k].userPrompt = <<"QUESTION:", "\n">> \o body.question.val
    /\ \A k \in CallsOfRound(2) :
          Tokens(calls[k].userPrompt)
             \subseteq Round2Template \cup Tokens(body.question.val) \cup Round1Tokens
    /\ \A k \in CallsOfRound(3) :
          Tokens(calls[k].userPrompt)
             \subseteq Round3Template \cup Tokens(body.question.val)
                         \cup Round1Tokens \cup Round2Tokens

\* C20: every Round 1 prompt is the question only, the same for all agents;
\* every Round 2 prompt is made of the question and Round 1 answers only; the
\* Round 3 prompt of the question, Round 1 and Round 2 results only; and no
\* result of a later step ever changes a prompt already issued.
C20_ForwardOnly ==
    /\ []PromptSources
    /\ [][\A k \in DOMAIN calls :
             /\ k \in DOMAIN calls'
             /\ calls'[k].userPrompt = calls[k].userPrompt
             /\ calls'[k].systemPrompt = calls[k].systemPrompt
             /\ calls'[k].round = calls[k].round]_vars

\* the arbiter has been called with a critique that no Round 2 prompt holds
C20_Witness ==
    /\ CallsOfRound(3) # {}
    /\ "checked" \in Round2Tokens
    /\ "checked" \in Tokens(calls[Min(CallsOfRound(3))].userPrompt)
    /\ \A k \in CallsOfRound(2) : "checked" \notin Tokens(calls[k].userPrompt)

----------------------------------------------------------------------------
(* C21 *)

\* C21: in every returned DebateResult chosenFrom is the sequence of the
\* modelIds of round2, that is every configured agent in configured order,
\* whatever the arbiter ruled and whichever agents soft-failed.
C21_ChosenFromIsRound2 ==
    \A n \in DOMAIN responses :
        responses[n].status = 200 =>
            LET d == responses[n].body IN
            /\ Len(d.chosenFrom) = Len(d.round2)
            /\ \A i \in DOMAIN d.round2 : d.chosenFrom[i] = d.round2[i].modelId
            /\ d.chosenFrom = [i \in 1 .. N |-> MODELS[i].id]

\* the arbiter ruled for an answer no agent gave and gemini soft-failed in
\* Round 2, and chosenFrom still names the three agents
C21_Witness ==
    /\ Responded(200)
    /\ \E k \in CallsOfRound(2) : SoftFailed(calls[k])
    /\ responses[1].body.finalAnswer = UnableToDetermine
    /\ responses[1].body.chosenFrom = <<"claude", "gpt", "gemini">>

----------------------------------------------------------------------------
(* C22 *)

PhaseRank(p) ==
    CASE p = "start" -> 0 [] p = "parsed" -> 1 [] p = "r1" -> 2
      [] p = "r2" -> 3 [] p = "r3" -> 4 [] p = "done" -> 5

\* each agent has at most one call in Round 1 and in Round 2, the arbiter at
\* most one in Round 3, and calls are issued round after round
CalledAtMostOnce ==
    /\ \A k, j \in DOMAIN calls :
          (k # j /\ calls[k].round = calls[j].round) =>
              calls[k].config # calls[j].config
    /\ Cardinality(CallsOfRound(1)) <= N /\ Cardinality(CallsOfRound(2)) <= N
    /\ Cardinality(CallsOfRound(3)) <= 1
    /\ \A k, j \in DOMAIN calls : k < j => calls[k].round <= calls[j].round
    /\ Responded(200) => Len(calls) = 2 * N + 1

\* C22: the phases of a request advance only forward and none is entered
\* again; each agent is called at most once in Round 1 and in Round 2, the
\* arbiter at most once; a call that has settled, failed or not, is not
\* issued again, and after a call has failed no call at all is issued; a
\* debate that ends with 200 has issued exactly 2N+1 calls.
C22_ForwardNoRetry ==
    /\ []CalledAtMostOnce
    /\ [][/\ PhaseRank(pc') >= PhaseRank(pc)
          /\ Len(calls') >= Len(calls)
          /\ (\E k \in DOMAIN calls : calls[k].status = "failed")
                => Len(calls') = Len(calls)
          /\ \A k \in DOMAIN calls :
                /\ calls'[k].config = calls[k].config
                /\ calls'[k].round = calls[k].round
                /\ calls[k].status # "pending" => calls'[k] = calls[k]]_vars

\* a debate ended with 200 after gemini's Round 1 call was rejected: 2N+1
\* calls, the rejected one not issued again
C22_Witness ==
    /\ Responded(200) /\ Len(calls) = 2 * N + 1
    /\ \E k \in CallsOfRound(1) :
          calls[k].outcome.kind = "error" /\ calls[k].config.provider = "google"

----------------------------------------------------------------------------
(* C23 *)

MarkerAbsent(text, marker) == \A i \in 0 .. Len(text) : ~Occurs(text, marker, i)

\* the marker occurs and only whitespace follows its first occurrence
OnlyWhitespaceAfter(text, marker) ==
    /\ ~MarkerAbsent(text, marker)
    /\ LET from == Min({ i \in 0 .. Len(text) : Occurs(text, marker, i) })
                     + Len(marker)
       IN  \A i \in (from + 1) .. Len(text) : IsWhitespace(text[i])

\* C23: for every text the value of extractAfter is defined and is a string
\* (no exception is raised); it is the empty string for a text that lacks the
\* marker, and for a text in which only whitespace follows the marker.
C23_AbsentMarkerGivesEmpty ==
    fn = "extractAfter" =>
        /\ ~out.returned => extractAfter(args.text, args.marker) \in Seq(Alphabet)
        /\ out.returned =>
              /\ out.value \in Seq(Alphabet)
              /\ MarkerAbsent(args.text, args.marker) => out.value = <<>>
              /\ OnlyWhitespaceAfter(args.text, args.marker) => out.value = <<>>

\* a text that holds the shorter marker but not the one asked for
C23_Witness ==
    /\ fn = "extractAfter" /\ out.returned
    /\ args.marker = <<"UPDATED_", "FINAL_ANSWER:">>
    /\ args.text = <<"REASONING:", "\\u00a0", "a", "\n", "FINAL_ANSWER:", "a">>
    /\ out.value = <<>>

----------------------------------------------------------------------------
(* C24 *)

\* the text between the first start marker and the first end marker after it
\* (to the end of the text if there is none), untrimmed
ContentBetween(text, startMarker, endMarker) ==
    LET from == Min({ i \in 0 .. Len(text) : Occurs(text, startMarker, i) })
                  + Len(startMarker)
        ends == { j \in from .. Len(text) : Occurs(text, endMarker, j) }
    IN  SubSeq(text, from + 1, IF ends = {} THEN Len(text) ELSE Min(ends))

IsBlank(text) == \A i \in DOMAIN text : IsWhitespace(text[i])

\* C24: the Round1Answer keeps the response text unchanged as rawAnswer;
\* finalAnswer is what extractAfter gives for FINAL_ANSWER:, or exactly
\* "No answer provided" when the marker is absent or nothing but whitespace
\* follows it; reasoning is the trimmed text between REASONING: and
\* FINAL_ANSWER:, or the full response text when REASONING: is absent or that
\* text is blank.
C24_Round1Fallbacks ==
    (fn = "runRound1" /\ out.returned) =>
        LET t == args.responseText
            a == out.value
            FA == <<"FINAL_ANSWER:">>
            RE == <<"REASONING:">>
        IN  /\ DOMAIN a = {"modelId", "rawAnswer", "reasoning", "finalAnswer"}
            /\ a.modelId = args.model.id
            /\ a.rawAnswer = t
            /\ IF MarkerAbsent(t, FA) \/ OnlyWhitespaceAfter(t, FA)
               THEN a.finalAnswer = NoAnswerProvided
               ELSE a.finalAnswer = extractAfter(t, FA) /\ a.finalAnswer # <<>>
            /\ IF MarkerAbsent(t, RE) THEN a.reasoning = t
               ELSE IF IsBlank(ContentBetween(t, RE, FA)) THEN a.reasoning = t
               ELSE IsTrimOf(a.reasoning, ContentBetween(t, RE, FA))

\* an answer without its reasoning section: the full text is the reasoning
C24_Witness ==
    /\ fn = "runRound1" /\ out.returned
    /\ args.responseText = <<"a", "\n", "FINAL_ANSWER:", "\\u00a0", "a">>
    /\ out.value.reasoning = args.responseText
    /\ out.value.finalAnswer = <<"a">>
    /\ out.value.rawAnswer = args.responseText

----------------------------------------------------------------------------
(* C25 *)

\* C25: for a Round 2 response text that callLLM returned and that lacks
\* UPDATED_FINAL_ANSWER: (or has only whitespace after it), the parsing
\* returns a Round2Critique (no error) whose revisedAnswer is the Round 1
\* finalAnswer of the same agent, not of another one; when CRITIQUE: is
\* missing the critique is the full response text.
C25_ExtractionMissFallsBack ==
    (fn = "runRound2" /\ out.returned) =>
        LET t == args.responseText
            c == out.value
            self == args.round1[args.index]
            UFA == <<"UPDATED_", "FINAL_ANSWER:">>
        IN  /\ DOMAIN c = {"modelId", "rawCritique", "critique", "revisedAnswer"}
            /\ c.modelId = self.modelId
            /\ c.rawCritique = t
            /\ (MarkerAbsent(t, UFA) \/ OnlyWhitespaceAfter(t, UFA)) =>
                  /\ c.revisedAnswer = self.finalAnswer
                  /\ \A j \in DOMAIN args.round1 :
                        j # args.index => c.revisedAnswer # args.round1[j].finalAnswer
            /\ MarkerAbsent(t, <<"CRITIQUE:">>) => c.critique = t

\* gpt's critique without a revised answer: gpt's own Round 1 answer is kept
C25_Witness ==
    /\ fn = "runRound2" /\ out.returned
    /\ args.index = 2
    /\ args.responseText = <<"CRITIQUE:", "\\u00a0", "a", "\n", "FINAL_ANSWER:", "a">>
    /\ out.value.revisedAnswer = <<"42">>
    /\ out.value.critique = <<"a", "\n", "FINAL_ANSWER:", "a">>

----------------------------------------------------------------------------
(* C26 *)

\* C26: in Round 1 each agent's entry is a function of that agent's own
\* provider response only, so two executions that differ only in what google
\* does give the same entries for claude and gpt; an entry is collected as
\* soon as its own call returns, and once every call has returned, a
\* soft-failed google call included, the round is complete.
C26_OwnResponseOnly ==
    \A k \in CallsOfRound(1) :
        /\ calls[k].status = "returned" =>
              results1[calls[k].slot]
                 = Round1Answer(calls[k].config.id,
                                callLLM(calls[k].config, calls[k].outcome).text)
        /\ calls[k].status # "returned" => results1[calls[k].slot] = Unfilled
        /\ AllReturned(1) => pc # "r1" /\ round1 = results1

\* claude and gpt answered, gemini's call was rejected, the round is complete
C26_Witness ==
    /\ pc = "r2"
    /\ \E k \in CallsOfRound(1) :
          calls[k].config.id = "gemini" /\ calls[k].outcome.kind = "error"
    /\ round1[1] = Round1Answer("claude", R1Pool[1])
    /\ round1[2] = Round1Answer("gpt", R1Pool[3])
    /\ round1[3].finalAnswer = NoAnswerProvided

----------------------------------------------------------------------------
(* C27 *)

\* the provider returned, without error, a payload with no text in it
EmptyPayload(o) ==
    \/ o.kind \in {"nontext", "nocontent", "nullcontent"}
    \/ o.kind = "text" /\ o.text = <<>>

\* what C27 says of one settled call with an empty payload
EmptyPayloadHandled(c) ==
    IF c.config.provider = "google"
    THEN /\ c.status = "returned"
         /\ callLLM(c.config, c.outcome) = Returned(FallbackEmpty)
    ELSE /\ c.status = "returned"
         /\ callLLM(c.config, c.outcome) = Returned(<<>>)
         /\ c.round = 1 => results1[c.slot].rawAnswer = <<>>
         /\ c.round = 2 => results2[c.slot].rawCritique = <<>>
         /\ Responded(500) => \E j \in DOMAIN calls : calls[j].outcome.kind = "error"

\* C27: an empty or non-text payload that anthropic or openai returned
\* without error is not raised as a failure and not replaced by the fallback
\* payload: callLLM returns the empty string and the debate continues; only
\* google's empty payload is replaced by the fallback payload.
C27_EmptyPayloadNotAFailure ==
    \A k \in DOMAIN calls :
        (calls[k].status # "pending" /\ EmptyPayload(calls[k].outcome)) =>
            EmptyPayloadHandled(calls[k])

\* the part of C27 the code meets: every empty payload but anthropic's empty
\* content array, which is raised as a failure
C27_ExceptEmptyContentArray ==
    \A k \in DOMAIN calls :
        (calls[k].status # "pending" /\ EmptyPayload(calls[k].outcome)) =>
            IF calls[k].outcome.kind = "nocontent"
            THEN calls[k].status = "failed" /\ Responded(500)
            ELSE calls[k].status = "returned"
                 /\ callLLM(calls[k].config, calls[k].outcome)
                      = Returned(IF calls[k].config.provider = "google"
                                 THEN FallbackEmpty ELSE <<>>)

----------------------------------------------------------------------------
(* C28 *)

\* nothing can be extracted after the marker: it is absent, or only
\* whitespace follows it
NothingAfter(text, marker) ==
    MarkerAbsent(text, marker) \/ OnlyWhitespaceAfter(text, marker)

\* C28: for every arbiter response text, finalAnswer is the content extracted
\* after FINAL_ANSWER:, or "Unable to determine final answer" when there is
\* none; rationale is the content after JUSTIFICATION: if it is not empty,
\* else the content after RATIONALE: if it is not empty, else the full text.
C28_ArbiterFallbacks ==
    (fn = "runRound3" /\ out.returned) =>
        LET t == args.responseText
            FA == <<"FINAL_ANSWER:">>
            JU == <<"JUSTIFICATION:">>
            RA == <<"RATIONALE:">>
        IN  /\ DOMAIN out.value = {"finalAnswer", "rationale"}
            /\ IF NothingAfter(t, FA)
               THEN out.value.finalAnswer = UnableToDetermine
               ELSE /\ out.value.finalAnswer = extractAfter(t, FA)
                    /\ out.value.finalAnswer # <<>>
            /\ IF ~NothingAfter(t, JU)
               THEN /\ out.value.rationale = extractAfter(t, JU)
                    /\ out.value.rationale # <<>>
               ELSE IF ~NothingAfter(t, RA)
               THEN /\ out.value.rationale = extractAfter(t, RA)
                    /\ out.value.rationale # <<>>
               ELSE out.value.rationale = t

\* JUSTIFICATION: is there but empty, so the RATIONALE: content is taken;
\* there is no FINAL_ANSWER:
C28_Witness ==
    /\ fn = "runRound3" /\ out.returned
    /\ args.responseText = <<"RATIONALE:", "\\u00a0", "a", "\n", "\n", "JUSTIFICATION:">>
    /\ out.value.rationale = <<"a">>
    /\ out.value.finalAnswer = UnableToDetermine

====
